---- MODULE Spec2Model ----
(***************************************************************************)
(* A model of the JIIT Web Portal CORS proxy: the Express server of        *)
(* server.js (the second, current copy of the file, lines 214-553), and    *)
(* the header handling of the archived Worker (src/index.ts of the worker  *)
(* directory) and of the Hono app printed in README.md.                    *)
(*                                                                         *)
(* Text is modelled as a sequence of tokens: every string the program      *)
(* handles (a URL, a path, an origin, a header value) is a sequence of     *)
(* short strings, and the JavaScript string operations (startsWith, slice, *)
(* concatenation, split) are the corresponding operations on sequences.    *)
(* The vocabulary is chosen so that one token is never a proper textual    *)
(* prefix of another except where that is stated.  A request or response   *)
(* body is a sequence of bytes (0..255).                                   *)
(***************************************************************************)
EXTENDS Integers, Sequences, FiniteSets, TLC

\* conn: the connections; probe: the pure functions under test; upstream:
\* the answers the upstream gave for each connection's request, in order;
\* log: the console entries written while each connection's request was
\* handled; sent: how many responses were written for each connection's
\* request; failed: how many requests the process has answered with an error
\* status so far
VARIABLES conn, probe, upstream, log, sent, failed

vars == <<conn, probe, upstream, log, sent, failed>>

(***************************************************************************)
(* Bounds of the model.                                                    *)
(***************************************************************************)
\* longest target path P (in tokens) tried by the path-resolution probes
MaxPathLen == 3
\* how many redirects the upstream answers for one inbound request
MaxHops == 1
\* longest ALLOWED_ORIGINS string (in tokens) tried by the allowlist probe
MaxListLen == 3
\* failed requests are counted up to this many
MaxFailed == 2

(***************************************************************************)
(* Strings as token sequences.                                             *)
(***************************************************************************)
StartsWith(s, p) ==
    /\ Len(p) <= Len(s)
    /\ SubSeq(s, 1, Len(p)) = p

\* String.prototype.slice(n): what follows the first n tokens
Slice(s, n) == SubSeq(s, n + 1, Len(s))

\* index of the first t in s, or 0
IndexOf(s, t) ==
    IF \E i \in 1..Len(s) : s[i] = t
    THEN CHOOSE i \in 1..Len(s) : s[i] = t /\ \A j \in 1..(i - 1) : s[j] # t
    ELSE 0

\* index of the first token of s that is in T, or 0
IndexOfAny(s, T) ==
    IF \E i \in 1..Len(s) : s[i] \in T
    THEN CHOOSE i \in 1..Len(s) : s[i] \in T /\ \A j \in 1..(i - 1) : s[j] \notin T
    ELSE 0

\* String.prototype.split(t)
RECURSIVE Split(_, _)
Split(s, t) ==
    LET i == IndexOf(s, t)
    IN  IF i = 0 THEN <<s>>
        ELSE <<SubSeq(s, 1, i - 1)>> \o Split(Slice(s, i), t)

\* every sequence over S of length at most n
RECURSIVE SeqsUpTo(_, _)
SeqsUpTo(S, n) ==
    IF n = 0 THEN {<<>>}
    ELSE LET shorter == SeqsUpTo(S, n - 1)
         IN  shorter \cup {Append(s, x) : s \in shorter, x \in S}

\* a header set: names (lower case, as Node stores them) to values
SetHeader(h, n, v) == [x \in DOMAIN h \cup {n} |-> IF x = n THEN v ELSE h[x]]
DeleteHeader(h, n) == [x \in DOMAIN h \ {n} |-> h[x]]
NoHeaders == [x \in {} |-> <<>>]
Has(h, n) == n \in DOMAIN h

(***************************************************************************)
(* JavaScript values that may be a string, an array of strings or          *)
(* undefined (a header that was not sent, req.query.path).                 *)
(***************************************************************************)
Undefined == [t |-> "undefined", v |-> <<>>]
Str(s) == [t |-> "string", v |-> s]
Arr(a) == [t |-> "array", v |-> a]
\* !x
Falsy(x) == x.t = "undefined" \/ (x.t = "string" /\ x.v = <<>>)
\* req.headers[n]
HeaderOf(h, n) == IF Has(h, n) THEN Str(h[n]) ELSE Undefined

(***************************************************************************)
(* Configuration of the Express server (no environment variable set).      *)
(***************************************************************************)
JIIT_API_BASE ==
    <<"https://", "webportal.jiit.ac.in", ":6011", "/", "StudentPortalAPI">>

DefaultAllowedOrigins ==
    <<"https://yashmalik.tech", ",", "https://codeblech.github.io", ",",
      "http://localhost:5173", ",", "http://localhost:4173", ",",
      "http://127.0.0.1:5173", ",", "http://127.0.0.1:4173">>

ALLOWED_ORIGINS == Split(DefaultAllowedOrigins, ",")

(***************************************************************************)
(* Origin gate and CORS headers.                                           *)
(***************************************************************************)
\* ALLOWED_ORIGINS for a value of the environment variable of that name ("" when
\* it is not set)
AllowedOriginsOf(env) == Split(IF env = <<>> THEN DefaultAllowedOrigins ELSE env, ",")

\* isOriginAllowed, for a given ALLOWED_ORIGINS
OriginAllowedIn(allowed, origin) ==
    IF Falsy(origin) THEN FALSE
    ELSE \E i \in 1..Len(allowed) : StartsWith(origin.v, allowed[i])

isOriginAllowed(origin) == OriginAllowedIn(ALLOWED_ORIGINS, origin)

getCorsHeaders(origin) ==
    LET corsOrigin == IF isOriginAllowed(origin) THEN origin
                      ELSE Str(ALLOWED_ORIGINS[1])
    IN  [n \in {"access-control-allow-origin", "access-control-allow-methods",
                "access-control-allow-headers", "access-control-max-age", "vary"} |->
            CASE n = "access-control-allow-origin" ->
                    IF Falsy(corsOrigin) THEN <<"*">> ELSE corsOrigin.v
              [] n = "access-control-allow-methods" -> <<"GET, HEAD, POST, OPTIONS">>
              [] n = "access-control-allow-headers" ->
                    <<"Content-Type, Authorization, LocalName">>
              [] n = "access-control-max-age" -> <<"86400">>
              [] OTHER -> <<"Origin">>]

\* res.setHeader of every header of h2 on h1
SetAll(h1, h2) ==
    [n \in DOMAIN h1 \cup DOMAIN h2 |-> IF n \in DOMAIN h2 THEN h2[n] ELSE h1[n]]

applyCorsHeaders(resHeaders, origin) == SetAll(resHeaders, getCorsHeaders(origin))

(***************************************************************************)
(* The inbound request line: req.path and req.query as Express 4 gives     *)
(* them (parseurl's pathname, qs.parse of what follows the first "?").     *)
(***************************************************************************)
Pathname(url) ==
    LET i == IndexOf(url, "?")
    IN  IF i = 0 THEN url ELSE SubSeq(url, 1, i - 1)

QueryString(url) ==
    LET i == IndexOf(url, "?")
    IN  IF i = 0 THEN <<>> ELSE Slice(url, i)

\* qs utils.decode: "+" is a space, then decodeURIComponent, and the string
\* as it stands when decodeURIComponent throws (a "%" that starts no escape)
PlusToSpace(s) == [i \in 1..Len(s) |-> IF s[i] = "+" THEN " " ELSE s[i]]
PercentDecode(s) ==
    [i \in 1..Len(s) |->
        CASE s[i] = "%2F" -> "/"
          [] s[i] = "%20" -> " "
          [] OTHER -> s[i]]
QsDecode(s) ==
    LET w == PlusToSpace(s)
    IN  IF \E i \in 1..Len(w) : w[i] = "%" THEN w ELSE PercentDecode(w)

\* where qs cuts one "key=value" part: at the "=" of the first "]=", or else
\* at the first "="; 0 when there is none
EqualsPos(part) ==
    LET brackets == {i \in 1..(Len(part) - 1) : part[i] = "]" /\ part[i + 1] = "="}
    IN  IF brackets # {}
        THEN (CHOOSE i \in brackets : \A j \in brackets : i <= j) + 1
        ELSE IndexOf(part, "=")
QsKey(part) ==
    LET i == EqualsPos(part)
    IN  QsDecode(IF i = 0 THEN part ELSE SubSeq(part, 1, i - 1))
QsValue(part) ==
    LET i == EqualsPos(part)
    IN  IF i = 0 THEN <<>> ELSE QsDecode(Slice(part, i))

\* the values given for "path", in order
RECURSIVE PathValues(_)
PathValues(parts) ==
    IF parts = <<>> THEN <<>>
    ELSE (IF QsKey(Head(parts)) = <<"path">> THEN <<QsValue(Head(parts))>> ELSE <<>>)
         \o PathValues(Tail(parts))

\* req.query.path: undefined, a string, or an array when the key is repeated
QueryPath(url) ==
    LET vals == PathValues(Split(QueryString(url), "&"))
    IN  CASE Len(vals) = 0 -> Undefined
          [] Len(vals) = 1 -> Str(vals[1])
          [] OTHER -> Arr(vals)

(***************************************************************************)
(* Path resolver of the proxy handler.                                     *)
(***************************************************************************)
proxyPrefix == <<"/", "proxy">>

\* the extraction with the pathname taken whole, "/proxy" not sliced off
ExtractTargetPath_KeepPrefix(url) ==
    LET q == QueryPath(url)
        pathname == Pathname(url)
    IN  IF Falsy(q) /\ StartsWith(pathname, proxyPrefix)
        THEN Str(pathname)
        ELSE q

\* targetPath after the two extraction steps (query parameter, then the rest
\* of the pathname after "/proxy")
ExtractTargetPath(url) ==
    LET q == QueryPath(url)
        pathname == Pathname(url)
    IN  IF Falsy(q) /\ StartsWith(pathname, proxyPrefix)
        THEN Str(Slice(pathname, Len(proxyPrefix)))
        ELSE q

\* "missing": the 400 answer; "throws": targetPath.startsWith is not a
\* function (an array), caught by the handler's catch; "ok": the target path
ResolveTargetPath(url) ==
    LET targetPath == ExtractTargetPath(url)
    IN  CASE Falsy(targetPath) -> [kind |-> "missing", path |-> <<>>]
          [] targetPath.t = "array" -> [kind |-> "throws", path |-> <<>>]
          [] OTHER ->
               [kind |-> "ok",
                path |-> IF StartsWith(targetPath.v, <<"/">>) THEN targetPath.v
                         ELSE <<"/">> \o targetPath.v]

(***************************************************************************)
(* new URL(s), as far as the proxy depends on it: scheme, host and port,   *)
(* then the path with its dot segments removed and spaces escaped, then    *)
(* the query.                                                              *)
(***************************************************************************)
Schemes == {"https://", "http://"}
Hosts == {"webportal.jiit.ac.in", "evil.example"}
Ports == {":6011", ":8443"}

\* percent-encoding of a path segment
EncodeSegment(seg) == [i \in 1..Len(seg) |-> IF seg[i] = " " THEN "%20" ELSE seg[i]]

\* the segments of a path, dot segments resolved; out is the result so far
RECURSIVE Normalize(_, _)
Normalize(segs, out) ==
    IF segs = <<>> THEN out
    ELSE LET seg == Head(segs)
             last == Len(segs) = 1
             popped == IF out = <<>> THEN out ELSE SubSeq(out, 1, Len(out) - 1)
         IN  CASE seg = <<"..">> ->
                    Normalize(Tail(segs), IF last THEN Append(popped, <<>>) ELSE popped)
               [] seg = <<".">> ->
                    Normalize(Tail(segs), IF last THEN Append(out, <<>>) ELSE out)
               [] OTHER -> Normalize(Tail(segs), Append(out, EncodeSegment(seg)))

RECURSIVE JoinPath(_)
JoinPath(segs) ==
    IF segs = <<>> THEN <<>> ELSE <<"/">> \o Head(segs) \o JoinPath(Tail(segs))

NormalizePath(path) ==
    IF path = <<>> THEN <<"/">>
    ELSE LET joined == JoinPath(Normalize(Split(Tail(path), "/"), <<>>))
         IN  IF joined = <<>> THEN <<"/">> ELSE joined

ParseURL(u) ==
    LET rest == Tail(u)
        i == IndexOfAny(rest, {"/", "?"})
        authority == IF i = 0 THEN rest ELSE SubSeq(rest, 1, i - 1)
        after == IF i = 0 THEN <<>> ELSE Slice(rest, i - 1)
        q == IndexOf(after, "?")
        path == IF q = 0 THEN after ELSE SubSeq(after, 1, q - 1)
        okAuthority ==
            /\ Len(authority) \in {1, 2}
            /\ authority[1] \in Hosts
            /\ Len(authority) = 2 => authority[2] \in Ports
    IN  IF u = <<>> \/ Head(u) \notin Schemes \/ ~okAuthority
        THEN [ok |-> FALSE, origin |-> <<>>, path |-> <<>>, query |-> <<>>]
        ELSE [ok |-> TRUE,
              origin |-> <<Head(u)>> \o authority,
              path |-> NormalizePath(path),
              query |-> IF q = 0 THEN <<>> ELSE Slice(after, q)]

\* Target validator
isValidJiitUrl(url) ==
    IF ~ParseURL(url).ok THEN FALSE
    ELSE StartsWith(url, JIIT_API_BASE)

\* the origin the upstream is served from: scheme, host and port of the base
UpstreamOrigin == ParseURL(JIIT_API_BASE).origin
\* the path prefix of the upstream API
ApiPrefix == <<"/", "StudentPortalAPI">>

(***************************************************************************)
(* The request body.  express.raw({type: "*/*"}) leaves a Buffer in        *)
(* req.body when the request has a body and a Content-Type, and {} when    *)
(* it has not; the handler turns the Buffer into a string with             *)
(* toString("utf-8") and fetch sends the string encoded as UTF-8.          *)
(***************************************************************************)
IsCont(b) == b >= 128 /\ b <= 191

\* Buffer.prototype.toString("utf-8"): the code points of bs, U+FFFD (65533)
\* for every maximal ill-formed part
RECURSIVE Utf8Decode(_)
Utf8Decode(bs) ==
    IF bs = <<>> THEN <<>>
    ELSE LET b1 == bs[1]
             n == Len(bs)
             lo2 == CASE b1 = 224 -> 160 [] b1 = 240 -> 144 [] OTHER -> 128
             hi2 == CASE b1 = 237 -> 159 [] b1 = 244 -> 143 [] OTHER -> 191
             need == CASE b1 < 128 -> 0
                       [] b1 >= 194 /\ b1 <= 223 -> 1
                       [] b1 >= 224 /\ b1 <= 239 -> 2
                       [] b1 >= 240 /\ b1 <= 244 -> 3
                       [] OTHER -> -1
             ok2 == n >= 2 /\ bs[2] >= lo2 /\ bs[2] <= hi2
             ok3 == ok2 /\ n >= 3 /\ IsCont(bs[3])
             ok4 == ok3 /\ n >= 4 /\ IsCont(bs[4])
         IN  CASE need = 0 -> <<b1>> \o Utf8Decode(Slice(bs, 1))
               [] need = 1 /\ ok2 ->
                    <<(b1 % 32) * 64 + (bs[2] % 64)>> \o Utf8Decode(Slice(bs, 2))
               [] need = 2 /\ ok3 ->
                    <<(b1 % 16) * 4096 + (bs[2] % 64) * 64 + (bs[3] % 64)>>
                        \o Utf8Decode(Slice(bs, 3))
               [] need = 3 /\ ok4 ->
                    <<(b1 % 8) * 262144 + (bs[2] % 64) * 4096 + (bs[3] % 64) * 64
                        + (bs[4] % 64)>> \o Utf8Decode(Slice(bs, 4))
               [] need = 3 /\ ok3 -> <<65533>> \o Utf8Decode(Slice(bs, 3))
               [] need >= 2 /\ ok2 -> <<65533>> \o Utf8Decode(Slice(bs, 2))
               [] OTHER -> <<65533>> \o Utf8Decode(Slice(bs, 1))

\* the UTF-8 encoding of a string, as fetch sends a string body
RECURSIVE Utf8Encode(_)
Utf8Encode(cps) ==
    IF cps = <<>> THEN <<>>
    ELSE LET c == Head(cps)
         IN  (CASE c < 128 -> <<c>>
                [] c < 2048 -> <<192 + (c \div 64), 128 + (c % 64)>>
                [] c < 65536 ->
                     <<224 + (c \div 4096), 128 + ((c \div 64) % 64), 128 + (c % 64)>>
                [] OTHER ->
                     <<240 + (c \div 262144), 128 + ((c \div 4096) % 64),
                       128 + ((c \div 64) % 64), 128 + (c % 64)>>)
             \o Utf8Encode(Tail(cps))

NoBody == [has |-> FALSE, bytes |-> <<>>]

\* req.body after the express.raw middleware: a Buffer (has) or {}
RawBody(req) ==
    IF Has(req.headers, "content-type") /\ req.body # <<>>
    THEN [has |-> TRUE, bytes |-> req.body]
    ELSE NoBody

\* fetchOptions.body
ForwardBody(req) ==
    LET body == RawBody(req)
    IN  IF req.method \in {"POST", "PUT", "PATCH"} /\ body.has /\ Len(body.bytes) > 0
        THEN [has |-> TRUE, bytes |-> Utf8Encode(Utf8Decode(body.bytes))]
        ELSE NoBody

(***************************************************************************)
(* Headers of the proxied request.                                         *)
(***************************************************************************)
OrElse(x, dflt) == IF Falsy(x) THEN dflt ELSE x.v

proxyHeaders(req) ==
    LET h == req.headers
        base == [n \in {"content-type", "origin", "referer", "user-agent"} |->
                    CASE n = "content-type" ->
                            OrElse(HeaderOf(h, "content-type"), <<"application/json">>)
                      [] n = "origin" -> <<"https://", "webportal.jiit.ac.in", ":6011">>
                      [] n = "referer" ->
                            <<"https://", "webportal.jiit.ac.in", ":6011", "/">>
                      [] OTHER ->
                            OrElse(HeaderOf(h, "user-agent"), <<"Mozilla/5.0">>)]
        withAuth == IF ~Falsy(HeaderOf(h, "authorization"))
                    THEN SetHeader(base, "authorization", h["authorization"])
                    ELSE base
    IN  IF ~Falsy(HeaderOf(h, "localname"))
        THEN SetHeader(withAuth, "localname", h["localname"])
        ELSE withAuth

(***************************************************************************)
(* fetch(targetUrl, fetchOptions): the request the HTTP client sends, and  *)
(* the request it sends next when the answer is a redirect (no "redirect"  *)
(* option is given, so redirects are followed).                            *)
(***************************************************************************)
FetchCall(url, method, headers, body) ==
    LET u == ParseURL(url)
    IN  [origin |-> u.origin, path |-> u.path, query |-> u.query,
         method |-> method,
         headers |-> SetHeader(headers, "sec-fetch-mode", <<"cors">>),
         body |-> body]

RedirectStatuses == {302, 307}

FollowRedirect(call, status, location) ==
    LET u == ParseURL(location)
        toGet == status = 302 /\ call.method = "POST"
        h1 == IF toGet THEN DeleteHeader(call.headers, "content-type") ELSE call.headers
        h2 == IF u.origin # call.origin THEN DeleteHeader(h1, "authorization") ELSE h1
    IN  [origin |-> u.origin, path |-> u.path, query |-> u.query,
         method |-> IF toGet THEN "GET" ELSE call.method,
         headers |-> h2,
         body |-> IF toGet THEN NoBody ELSE call.body]

(***************************************************************************)
(* Responses.                                                              *)
(***************************************************************************)
IsAccessControl(n) ==
    n \in {"access-control-allow-origin", "access-control-allow-methods",
           "access-control-allow-headers", "access-control-max-age",
           "access-control-allow-credentials", "access-control-expose-headers"}

\* the reason phrase Node writes for a status code when none is set
StatusMessage(status) ==
    CASE status = 200 -> "OK"
      [] status = 204 -> "No Content"
      [] status = 302 -> "Found"
      [] status = 307 -> "Temporary Redirect"
      [] status = 400 -> "Bad Request"
      [] status = 403 -> "Forbidden"
      [] status = 404 -> "Not Found"
      [] status = 405 -> "Method Not Allowed"
      [] status = 500 -> "Internal Server Error"
      [] status = 502 -> "Bad Gateway"
      [] OTHER -> ""

\* res.status(status).send(...): no statusMessage is ever assigned, so the
\* reason phrase is the default one of the status code
Response(status, headers, text, bytes) ==
    [status |-> status, statusMessage |-> StatusMessage(status),
     headers |-> headers, text |-> text, bytes |-> bytes]

\* an answer of the proxy handler itself: CORS headers, status, a text
CorsAnswer(status, origin, text) ==
    Response(status, applyCorsHeaders(NoHeaders, origin), text, <<>>)

\* the relayed upstream response
RelayResponse(origin, up) ==
    LET forwarded == [n \in {x \in DOMAIN up.headers : ~IsAccessControl(x)} |->
                        up.headers[n]]
    IN  Response(up.status, SetAll(applyCorsHeaders(NoHeaders, origin), forwarded),
                 "", up.body)

(***************************************************************************)
(* Route table of the Express application, in registration order.  Express *)
(* 4 matches route paths without regard to case and lets a GET route       *)
(* answer HEAD.                                                            *)
(***************************************************************************)
Lower(tok) ==
    CASE tok = "PROXY" -> "proxy"
      [] tok = "HEALTH" -> "health"
      [] OTHER -> tok
LowerSeq(s) == [i \in 1..Len(s) |-> Lower(s[i])]

Route(req) ==
    LET path == Pathname(req.url)
        lower == LowerSeq(path)
    IN  CASE req.method \in {"GET", "HEAD"} /\ path = <<"/">> -> "info"
          [] req.method \in {"GET", "HEAD"}
               /\ lower \in {<<"/", "health">>, <<"/", "health", "/">>} -> "health"
          [] req.method = "OPTIONS" /\ StartsWith(lower, proxyPrefix) -> "preflight"
          [] StartsWith(lower, proxyPrefix) -> "proxy"
          [] OTHER -> "notfound"

(***************************************************************************)
(* One connection: free, waiting for the upstream (fetching), or answered  *)
(* (done).  calls are the requests sent to the upstream for it, in order.  *)
(***************************************************************************)
Conns == {"c1", "c2"}

NoReq == [method |-> "", url |-> <<>>, headers |-> NoHeaders, body |-> <<>>]
NoRes == Response(0, NoHeaders, "", <<>>)
FreeConn == [st |-> "free", req |-> NoReq, calls |-> <<>>, res |-> NoRes]
Done(req, calls, res) == [st |-> "done", req |-> req, calls |-> calls, res |-> res]
Fetching(req, calls) == [st |-> "fetching", req |-> req, calls |-> calls, res |-> NoRes]

\* app.get("/")
InfoHandler(req) ==
    Done(req, <<>>,
         Response(200, SetHeader(NoHeaders, "content-type", <<"application/json">>),
                  "service info", <<>>))

\* a health check that reports on the upstream: 503 while a proxied request
\* stands answered with 502
HealthHandler_Readiness(req) ==
    Done(req, <<>>,
         Response(IF \E c \in Conns : conn[c].res.status = 502 THEN 503 ELSE 200,
                  SetHeader(NoHeaders, "content-type", <<"application/json">>),
                  "healthy", <<>>))

\* app.get("/health")
HealthHandler(req) ==
    Done(req, <<>>,
         Response(200, SetHeader(NoHeaders, "content-type", <<"application/json">>),
                  "healthy", <<>>))

\* app.options("/proxy*")
PreflightHandler(req) ==
    Done(req, <<>>, CorsAnswer(200, HeaderOf(req.headers, "origin"), ""))

\* the 404 handler
NotFoundHandler(req) ==
    Done(req, <<>>, Response(404, NoHeaders, "Not Found", <<>>))

\* app.all("/proxy*") up to its await of fetch
ProxyHandler(req) ==
    LET origin == HeaderOf(req.headers, "origin")
        r == ResolveTargetPath(req.url)
        targetUrl == JIIT_API_BASE \o r.path
    IN  CASE r.kind = "missing" ->
               Done(req, <<>>, CorsAnswer(400, origin, "Missing target path"))
          [] r.kind = "throws" ->
               Done(req, <<>>, CorsAnswer(502, origin, "Proxy error"))
          [] ~isValidJiitUrl(targetUrl) ->
               Done(req, <<>>, CorsAnswer(403, origin, "Invalid target URL"))
          [] OTHER ->
               Fetching(req, <<FetchCall(targetUrl, req.method, proxyHeaders(req),
                                         ForwardBody(req))>>)

\* express.raw reads the body of a request that has one and a Content-Type;
\* it passes an error on when the body's Content-Encoding is none it knows
MiddlewareFails(req) ==
    /\ Has(req.headers, "content-type")
    /\ req.body # <<>>
    /\ Has(req.headers, "content-encoding")
    /\ req.headers["content-encoding"] \notin {<<"identity">>, <<"gzip">>, <<"deflate">>}

\* the error handler
ErrorHandler(req) ==
    Done(req, <<>>,
         CorsAnswer(500, HeaderOf(req.headers, "origin"), "Internal Server Error"))

Dispatch(req) ==
    LET route == Route(req)
    IN  CASE MiddlewareFails(req) -> ErrorHandler(req)
          [] route = "info" -> InfoHandler(req)
          [] route = "health" -> HealthHandler(req)
          [] route = "preflight" -> PreflightHandler(req)
          [] route = "proxy" -> ProxyHandler(req)
          [] OTHER -> NotFoundHandler(req)

(***************************************************************************)
(* The console.  An entry is one console.log or console.error call: the    *)
(* line of the call, the text interpolated into it, the header set it      *)
(* prints with JSON.stringify, and the characters of a body it prints.     *)
(* Timestamps and fixed words are left out of the text.                    *)
(***************************************************************************)
LogEntry(line, text, headers, chars) ==
    [line |-> line, text |-> text, headers |-> headers, chars |-> chars]
LogText(line, text) == LogEntry(line, text, NoHeaders, <<>>)

\* String.prototype.substring(0, n)
Substring(s, n) == SubSeq(s, 1, IF Len(s) < n THEN Len(s) ELSE n)

\* origin || "none"
OriginOrNone(origin) == IF Falsy(origin) THEN <<"none">> ELSE origin.v

RECURSIVE Flatten(_)
Flatten(ss) == IF ss = <<>> THEN <<>> ELSE Head(ss) \o Flatten(Tail(ss))

\* JSON.stringify(req.query), as far as the "path" parameter goes
QueryJson(url) ==
    LET q == QueryPath(url)
    IN  CASE q.t = "undefined" -> <<>>
          [] q.t = "string" -> q.v
          [] OTHER -> Flatten(q.v)

\* the entries every request to the proxy handler starts with
IncomingLog(req) ==
    <<LogText(344, <<req.method>>),
      LogText(345, OriginOrNone(HeaderOf(req.headers, "origin"))),
      LogText(346, Pathname(req.url)),
      LogText(347, QueryJson(req.url))>>

\* the entries of the catch block
ErrorLog(name) == <<LogText(499, <<name>>)>>

\* "Authorization header present: ..." and "LocalName header present: ..."
CredentialLog(req) ==
    (IF ~Falsy(HeaderOf(req.headers, "authorization"))
     THEN <<LogText(407, Substring(req.headers["authorization"], 20))>>
     ELSE <<>>)
    \o (IF ~Falsy(HeaderOf(req.headers, "localname"))
        THEN <<LogText(413, Substring(req.headers["localname"], 20))>>
        ELSE <<>>)

\* the entries about the body: its length and its first 50 characters
BodyLog(req) ==
    LET body == RawBody(req)
    IN  IF req.method \in {"POST", "PUT", "PATCH"} /\ body.has /\ Len(body.bytes) > 0
        THEN <<LogEntry(437, <<>>, NoHeaders, Substring(Utf8Decode(body.bytes), 50))>>
        ELSE IF req.method = "POST" THEN <<LogText(445, <<>>)>> ELSE <<>>

\* what the proxy handler writes up to its await of fetch, or up to its answer
ProxyLog(req) ==
    LET r == ResolveTargetPath(req.url)
        targetUrl == JIIT_API_BASE \o r.path
    IN  CASE r.kind = "missing" -> IncomingLog(req) \o <<LogText(366, <<>>)>>
          [] r.kind = "throws" -> IncomingLog(req) \o ErrorLog("TypeError")
          [] ~isValidJiitUrl(targetUrl) ->
               IncomingLog(req) \o <<LogText(382, targetUrl), LogText(386, targetUrl)>>
          [] OTHER ->
               IncomingLog(req) \o <<LogText(382, targetUrl)>> \o CredentialLog(req)
               \o <<LogEntry(418, <<>>, proxyHeaders(req), <<>>)>>
               \o BodyLog(req) \o <<LogText(448, <<>>)>>

\* what is written while a request is dispatched
DispatchLog(req) ==
    LET route == Route(req)
    IN  CASE MiddlewareFails(req) ->
               <<LogText(521, <<req.method>> \o Pathname(req.url)),
                 LogText(522, <<"UnsupportedMediaTypeError">>)>>
          [] route = "info" -> <<LogText(298, <<>>)>>
          [] route = "health" -> <<LogText(322, <<>>)>>
          [] route = "preflight" ->
               <<LogText(331, OriginOrNone(HeaderOf(req.headers, "origin")))>>
          [] route = "proxy" -> ProxyLog(req)
          [] OTHER -> <<LogText(511, <<req.method>> \o Pathname(req.url))>>

\* String.prototype.includes on a content type
IsTextual(contentType) ==
    \E i \in 1..Len(contentType) :
        contentType[i] \in {"application/json", "text/plain", "text/html"}

\* what is written when fetch has resolved: the status line, the headers, and
\* the body when its content type holds "json" or "text"
ResponseLog(up) ==
    LET contentType == OrElse(HeaderOf(up.headers, "content-type"), <<>>)
        responseText == Utf8Decode(up.body)
    IN  <<LogText(454, <<up.statusText>>),
          LogEntry(457, <<>>, up.headers, <<>>),
          IF IsTextual(contentType)
          THEN IF up.status >= 400 \/ Len(responseText) < 500
               THEN LogEntry(471, <<>>, NoHeaders, responseText)
               ELSE LogEntry(474, <<>>, NoHeaders, Substring(responseText, 200))
          ELSE LogText(479, contentType),
          LogText(496, <<>>)>>

(***************************************************************************)
(* Inputs: the requests callers send and the answers the upstream gives.   *)
(***************************************************************************)
FirstAllowed == <<"https://yashmalik.tech">>
OtherAllowed == <<"https://codeblech.github.io">>
\* https://codeblech.github.io.evil.com: an allowed origin is its prefix
PrefixOrigin == <<"https://codeblech.github.io", ".evil.com">>
ForeignOrigin == <<"https://evil.example">>

\* the Origin header: not sent, or one of the four origins
OriginHeaders ==
    {NoHeaders} \cup
    {SetHeader(NoHeaders, "origin", o) :
        o \in {FirstAllowed, OtherAllowed, PrefixOrigin, ForeignOrigin}}

ApiPath == <<"/", "StudentPortalAPI", "/", "x">>

InboundUrls ==
    { <<"/">>,
      <<"/", "health">>,
      <<"/", "nope">>,
      <<"/", "proxy">>,
      <<"/", "proxy">> \o ApiPath,
      <<"/", "proxy", "?", "path", "=">> \o ApiPath,
      <<"/", "proxy", "/", "x">>,
      <<"/", "PROXY">> \o ApiPath,
      <<"/", "proxy", "/", "StudentPortalAPI", "/", "..", "/", "..", "/", "x">>,
      <<"/", "proxy", "?", "path", "=", "x", "&", "path", "=", "x">>,
      <<"/", "proxy", "?", "path", "=">>,
      <<"/", "proxy", "?", "path", "=", "&", "path", "=">> }

Bodies == {<<>>, <<65>>, <<195, 169>>, <<255>>}

\* what the caller's browser adds, and the credentials of the portal
BrowserHeaders ==
    [n \in {"origin", "referer", "cookie", "sec-fetch-site", "sec-fetch-mode",
            "sec-fetch-dest", "authorization", "localname", "content-type",
            "user-agent", "accept"} |->
        CASE n = "origin" -> OtherAllowed
          [] n = "accept" -> <<"application/json">>
          [] n = "referer" -> <<"https://codeblech.github.io", "/", "jportal">>
          [] n = "cookie" -> <<"session=1">>
          [] n = "sec-fetch-site" -> <<"cross-site">>
          [] n = "sec-fetch-mode" -> <<"no-cors">>
          [] n = "sec-fetch-dest" -> <<"document">>
          [] n = "authorization" -> <<"Bearer token">>
          [] n = "localname" -> <<"local-name">>
          [] n = "content-type" -> <<"application/octet-stream">>
          [] OTHER -> <<"Firefox">>]

\* a credential of 21 characters, one more than the log's preview
LongCredential == [i \in 1..21 |-> IF i = 21 THEN "z" ELSE "a"]

Request(method, url, headers, body) ==
    [method |-> method, url |-> url, headers |-> headers, body |-> body]

\* every route, with and without each kind of origin
RoutingRequests ==
    {Request(m, u, h, <<>>) :
        m \in {"GET", "POST", "OPTIONS"}, u \in InboundUrls, h \in OriginHeaders}

\* requests with a body, with and without a Content-Type
BodyRequests ==
    {Request(m, <<"/", "proxy">> \o ApiPath, h, b) :
        m \in {"POST", "PUT", "PATCH", "DELETE"},
        h \in {SetHeader(NoHeaders, "origin", FirstAllowed),
               SetHeader(SetHeader(NoHeaders, "origin", FirstAllowed),
                         "content-type", <<"application/octet-stream">>)},
        b \in Bodies}

\* requests of a browser, with its headers and the portal's credentials
HeaderRequests ==
    {Request(m, <<"/", "proxy">> \o ApiPath, h, <<>>) :
        m \in {"GET", "POST"},
        h \in {BrowserHeaders,
               DeleteHeader(BrowserHeaders, "authorization"),
               SetHeader(BrowserHeaders, "localname", <<>>),
               SetHeader(BrowserHeaders, "authorization", LongCredential)}}

\* the preflight a browser sends before a cross-origin POST
PreflightRequests ==
    {Request("OPTIONS", <<"/", "proxy">> \o ApiPath,
             SetHeader(SetHeader(h, "access-control-request-method", <<"POST">>),
                       "access-control-request-headers", <<"content-type">>),
             <<>>) : h \in OriginHeaders}

\* a body in an encoding express.raw does not know
EncodedRequests ==
    {Request("POST", <<"/", "proxy">> \o ApiPath,
             SetHeader(SetHeader(h, "content-type", <<"application/octet-stream">>),
                       "content-encoding", <<"compress">>),
             <<65>>) : h \in {NoHeaders, SetHeader(NoHeaders, "origin", FirstAllowed)}}

Requests ==
    RoutingRequests \cup BodyRequests \cup HeaderRequests \cup PreflightRequests
        \cup EncodedRequests

\* the Response object fetch resolves to
UpstreamAnswer(status, statusText, headers, body) ==
    [status |-> status, statusText |-> statusText, headers |-> headers, body |-> body]

\* the answers that are not relayed: a redirect, which fetch follows, and a
\* failed connection, for which fetch rejects
RedirectAnswer(status, location) ==
    UpstreamAnswer(status, StatusMessage(status),
                   SetHeader(NoHeaders, "location", location), <<>>)
NetworkError == UpstreamAnswer(0, "network error", NoHeaders, <<>>)

UpstreamResponses ==
    { UpstreamAnswer(200, "OK",
                     SetHeader(NoHeaders, "content-type", <<"application/json">>),
                     <<65>>),
      \* a server that writes no reason phrase
      UpstreamAnswer(200, "", SetHeader(NoHeaders, "vary", <<"Accept-Encoding">>),
                     <<65>>),
      UpstreamAnswer(200, "OK",
                     SetHeader(NoHeaders, "access-control-allow-origin", <<"*">>),
                     <<255>>),
      UpstreamAnswer(404, "Not Found", NoHeaders, <<>>),
      UpstreamAnswer(500, "Internal Server Error",
                     SetHeader(NoHeaders, "connection", <<"keep-alive">>), <<65>>) }

\* where the upstream redirects to
Locations ==
    { UpstreamOrigin \o <<"/", "login">>,
      <<"https://", "evil.example", "/">> }

(***************************************************************************)
(* The server.                                                             *)
(***************************************************************************)
NoProbe == [op |-> "none"]

Init ==
    /\ conn = [c \in Conns |-> FreeConn]
    /\ upstream = [c \in Conns |-> <<>>]
    /\ log = [c \in Conns |-> <<>>]
    /\ sent = [c \in Conns |-> 0]
    /\ failed = 0
    /\ probe = NoProbe

\* the count of failed requests after one more answer
CountFailure(res) ==
    IF res.status >= 400 /\ failed < MaxFailed THEN failed + 1 ELSE failed

\* a server that stops serving once a request has failed: every later
\* request is answered 503
Receive_Breaker(c, req) ==
    /\ conn[c].st = "free"
    /\ conn' = [conn EXCEPT ![c] =
                  IF failed >= 1
                  THEN Done(req, <<>>, Response(503, NoHeaders, "Unavailable", <<>>))
                  ELSE Dispatch(req)]
    /\ upstream' = [upstream EXCEPT ![c] = <<>>]
    /\ log' = [log EXCEPT ![c] = DispatchLog(req)]
    /\ sent' = [sent EXCEPT ![c] = IF conn'[c].st = "done" THEN 1 ELSE 0]
    /\ failed' = IF conn'[c].st = "done" THEN CountFailure(conn'[c].res) ELSE failed
    /\ UNCHANGED probe

\* a request arrives on a free connection and runs until it is answered or
\* until the handler awaits fetch
Receive(c, req) ==
    /\ conn[c].st = "free"
    /\ conn' = [conn EXCEPT ![c] = Dispatch(req)]
    /\ upstream' = [upstream EXCEPT ![c] = <<>>]
    /\ log' = [log EXCEPT ![c] = DispatchLog(req)]
    /\ sent' = [sent EXCEPT ![c] = IF conn'[c].st = "done" THEN 1 ELSE 0]
    /\ failed' = IF conn'[c].st = "done" THEN CountFailure(conn'[c].res) ELSE failed
    /\ UNCHANGED probe

\* the upstream answers with a redirect, which fetch follows
UpstreamRedirect(c, status, location) ==
    /\ conn[c].st = "fetching"
    /\ Len(conn[c].calls) <= MaxHops
    /\ conn' = [conn EXCEPT ![c].calls =
                  Append(@, FollowRedirect(@[Len(@)], status, location))]
    /\ upstream' = [upstream EXCEPT ![c] = Append(@, RedirectAnswer(status, location))]
    /\ UNCHANGED <<probe, log, sent, failed>>

\* the upstream answers; the handler relays the answer
UpstreamRespond(c, up) ==
    /\ conn[c].st = "fetching"
    /\ conn' = [conn EXCEPT ![c] =
                  Done(@.req, @.calls,
                       RelayResponse(HeaderOf(@.req.headers, "origin"), up))]
    /\ upstream' = [upstream EXCEPT ![c] = Append(@, up)]
    /\ log' = [log EXCEPT ![c] = @ \o ResponseLog(up)]
    /\ sent' = [sent EXCEPT ![c] = @ + 1]
    /\ failed' = CountFailure(up)
    /\ UNCHANGED probe

\* a catch block that writes its entries and answers nothing
UpstreamFail_Unanswered(c) ==
    /\ conn[c].st = "fetching"
    /\ conn' = [conn EXCEPT ![c].st = "aborted"]
    /\ upstream' = [upstream EXCEPT ![c] = Append(@, NetworkError)]
    /\ log' = [log EXCEPT ![c] = @ \o ErrorLog("TypeError")]
    /\ UNCHANGED <<probe, sent, failed>>

\* the call fails (connection refused, DNS); the catch block answers 502
UpstreamFail(c) ==
    /\ conn[c].st = "fetching"
    /\ conn' = [conn EXCEPT ![c] =
                  Done(@.req, @.calls,
                       CorsAnswer(502, HeaderOf(@.req.headers, "origin"),
                                  "Proxy error"))]
    /\ upstream' = [upstream EXCEPT ![c] = Append(@, NetworkError)]
    /\ log' = [log EXCEPT ![c] = @ \o ErrorLog("TypeError")]
    /\ sent' = [sent EXCEPT ![c] = @ + 1]
    /\ failed' = IF failed < MaxFailed THEN failed + 1 ELSE failed
    /\ UNCHANGED probe

\* the answer is written; the connection takes the next request
Finish(c) ==
    /\ conn[c].st = "done"
    /\ conn' = [conn EXCEPT ![c] = FreeConn]
    /\ upstream' = [upstream EXCEPT ![c] = <<>>]
    /\ log' = [log EXCEPT ![c] = <<>>]
    /\ sent' = [sent EXCEPT ![c] = 0]
    /\ UNCHANGED <<probe, failed>>

\* the server, one request at a time
Next ==
    \/ \E req \in Requests : Receive("c1", req)
    \/ \E status \in RedirectStatuses, location \in Locations :
          UpstreamRedirect("c1", status, location)
    \/ \E up \in UpstreamResponses : UpstreamRespond("c1", up)
    \/ UpstreamFail("c1")
    \/ Finish("c1")

Spec == Init /\ [][Next]_vars

(***************************************************************************)
(* Properties of the Express server.                                       *)
(***************************************************************************)
Active(c) == conn[c].st # "free"
Answered(c) == conn[c].st = "done"
OriginSent(c) == Has(conn[c].req.headers, "origin")
OriginListed(c) ==
    /\ OriginSent(c)
    /\ \E i \in 1..Len(ALLOWED_ORIGINS) : conn[c].req.headers["origin"] = ALLOWED_ORIGINS[i]
AllowOrigin(c) == "access-control-allow-origin"

\* C1: every request sent to the upstream for an inbound request, the ones
\* fetch sends when it follows a redirect included, goes to the configured
\* upstream origin (scheme, host and port of the upstream base).
C1_OnlyUpstreamOrigin ==
    \A c \in Conns : \A i \in 1..Len(conn[c].calls) :
        conn[c].calls[i].origin = UpstreamOrigin

\* C2: an answered request whose Origin header equals an allowlisted origin
\* has Access-Control-Allow-Origin equal to that origin and Vary equal to
\* "Origin" in its response, on every route and for every outcome.
C2_ListedOriginEchoed ==
    \A c \in Conns :
        (Answered(c) /\ OriginListed(c)) =>
            /\ Has(conn[c].res.headers, AllowOrigin(c))
            /\ conn[c].res.headers[AllowOrigin(c)] = conn[c].req.headers["origin"]
            /\ Has(conn[c].res.headers, "vary")
            /\ conn[c].res.headers["vary"] = <<"Origin">>

\* C3: an answered request whose Origin header is not an element of the
\* allowlist never has that origin as its response's
\* Access-Control-Allow-Origin.
C3_UnlistedOriginNotEchoed ==
    \A c \in Conns :
        (Answered(c) /\ OriginSent(c) /\ ~OriginListed(c)) =>
            ~(/\ Has(conn[c].res.headers, AllowOrigin(c))
              /\ conn[c].res.headers[AllowOrigin(c)] = conn[c].req.headers["origin"])

\* C4: the response to a request that has no Origin header has no
\* Access-Control-Allow-Origin header.
C4_NoOriginNoAllowOrigin ==
    \A c \in Conns :
        (Answered(c) /\ ~OriginSent(c)) => ~Has(conn[c].res.headers, AllowOrigin(c))

\* the request went to the proxy handler and a target path was resolved
Resolved(c) ==
    /\ Active(c)
    /\ ~MiddlewareFails(conn[c].req)
    /\ Route(conn[c].req) = "proxy"
    /\ ResolveTargetPath(conn[c].req.url).kind = "ok"
TargetPathOf(c) == ResolveTargetPath(conn[c].req.url).path

\* C5: a request whose resolved target path does not start with
\* /StudentPortalAPI is answered 403 and no request is sent to the upstream.
C5_OutsidePrefixRejected ==
    \A c \in Conns :
        (Resolved(c) /\ ~StartsWith(TargetPathOf(c), ApiPrefix)) =>
            /\ Answered(c)
            /\ conn[c].res.status = 403
            /\ conn[c].calls = <<>>

\* C7: a request to /proxy/StudentPortalAPI/x is forwarded to
\* https://webportal.jiit.ac.in:6011/StudentPortalAPI/x: the upstream origin,
\* and the resolved target path as the path.
C7_PrefixOnce ==
    \A c \in Conns :
        (Resolved(c) /\ conn[c].req.url = proxyPrefix \o ApiPath) =>
            /\ Len(conn[c].calls) >= 1
            /\ conn[c].calls[1].origin = UpstreamOrigin
            /\ conn[c].calls[1].path = ApiPath

\* C8: the body the upstream receives for a forwarded POST, PUT or PATCH
\* request with a non-empty body is the byte sequence the caller sent.
C8_BodyVerbatim ==
    \A c \in Conns :
        (/\ Len(conn[c].calls) >= 1
         /\ conn[c].req.method \in {"POST", "PUT", "PATCH"}
         /\ conn[c].req.body # <<>>) =>
            /\ conn[c].calls[1].body.has
            /\ conn[c].calls[1].body.bytes = conn[c].req.body

\* C10: every request sent to the upstream has Origin equal to the upstream
\* origin, a Referer that begins with the upstream origin, and
\* Sec-Fetch-Site equal to same-origin.
C10_SameOriginHeaders ==
    \A c \in Conns : \A i \in 1..Len(conn[c].calls) :
        LET h == conn[c].calls[i].headers
        IN  /\ Has(h, "origin") /\ h["origin"] = UpstreamOrigin
            /\ Has(h, "referer") /\ StartsWith(h["referer"], UpstreamOrigin)
            /\ Has(h, "sec-fetch-site") /\ h["sec-fetch-site"] = <<"same-origin">>

\* C11: an OPTIONS request to a path beginning with /proxy that has
\* Access-Control-Request-Method and Access-Control-Request-Headers is
\* answered with status 204 and an Access-Control-Max-Age header, and no
\* request is sent to the upstream for it.
C11_PreflightNoContent ==
    \A c \in Conns :
        (/\ Active(c)
         /\ conn[c].req.method = "OPTIONS"
         /\ StartsWith(Pathname(conn[c].req.url), proxyPrefix)
         /\ Has(conn[c].req.headers, "access-control-request-method")
         /\ Has(conn[c].req.headers, "access-control-request-headers")) =>
            /\ Answered(c)
            /\ conn[c].res.status = 204
            /\ Has(conn[c].res.headers, "access-control-max-age")
            /\ conn[c].calls = <<>>

\* the last answer the upstream gave for the request of c
LastAnswer(c) == upstream[c][Len(upstream[c])]
\* fetch rejected: the connection to the upstream failed
CallFailed(c) == upstream[c] # <<>> /\ LastAnswer(c) = NetworkError
\* fetch resolved: the handler had an upstream response to relay
CallSucceeded(c) == upstream[c] # <<>> /\ LastAnswer(c) # NetworkError

CorsHeaderNames ==
    {"access-control-allow-origin", "access-control-allow-methods",
     "access-control-allow-headers", "access-control-max-age", "vary"}

\* C12: a request whose upstream call failed is answered 502 with the CORS
\* headers, and exactly one request was sent to the upstream for it.
C12_FailureAnsweredOnce ==
    \A c \in Conns :
        (Answered(c) /\ CallFailed(c)) =>
            /\ conn[c].res.status = 502
            /\ CorsHeaderNames \subseteq DOMAIN conn[c].res.headers
            /\ Len(conn[c].calls) = 1

\* C14: a request to a path beginning with /proxy whose method is none of
\* GET, HEAD, POST, PUT, DELETE (nor OPTIONS, the preflight) is answered 405
\* and no request is sent to the upstream for it.
C14_UnsupportedMethodRejected ==
    \A c \in Conns :
        (/\ Active(c)
         /\ StartsWith(Pathname(conn[c].req.url), proxyPrefix)
         /\ conn[c].req.method \notin {"GET", "HEAD", "POST", "PUT", "DELETE", "OPTIONS"}) =>
            /\ Answered(c)
            /\ conn[c].res.status = 405
            /\ conn[c].calls = <<>>

\* v is a non-empty contiguous part of s
Contains(s, v) ==
    /\ v # <<>>
    /\ \E i \in 1..(Len(s) - Len(v) + 1) : SubSeq(s, i, i + Len(v) - 1) = v
\* the entry shows the whole of the header value v
ShowsValue(e, v) ==
    \/ Contains(e.text, v)
    \/ v # <<>> /\ \E n \in DOMAIN e.headers : e.headers[n] = v
\* the entries written for the request of c before its upstream call
RequestEntries(c) == 1..Len(DispatchLog(conn[c].req))

\* C15: no log entry written while a request is handled shows the whole
\* value of its Authorization or LocalName header, or any character of its
\* body.
C15_NoSecretLogged ==
    \A c \in Conns :
        Active(c) =>
            \A i \in RequestEntries(c) :
                /\ Has(conn[c].req.headers, "authorization") =>
                      ~ShowsValue(log[c][i], conn[c].req.headers["authorization"])
                /\ Has(conn[c].req.headers, "localname") =>
                      ~ShowsValue(log[c][i], conn[c].req.headers["localname"])
                /\ conn[c].req.body # <<>> => log[c][i].chars = <<>>

\* the request headers the proxy is to strip or overwrite: hop-by-hop and
\* forwarding headers, Origin, Referer, Cookie and Sec-Fetch-*
StrippedOrOverwritten ==
    {"host", "connection", "keep-alive", "proxy-authenticate", "proxy-authorization",
     "te", "trailers", "transfer-encoding", "upgrade", "x-real-ip", "x-forwarded-for",
     "x-forwarded-host", "x-forwarded-proto", "origin", "referer", "cookie",
     "sec-fetch-site", "sec-fetch-mode", "sec-fetch-dest"}

\* C16: every header of a forwarded request other than the stripped and
\* overwritten ones (Authorization, LocalName and Content-Type among them)
\* is a header of the request sent to the upstream, with the same value.
C16_HeadersPreserved ==
    \A c \in Conns :
        Len(conn[c].calls) >= 1 =>
            \A n \in DOMAIN conn[c].req.headers \ StrippedOrOverwritten :
                /\ Has(conn[c].calls[1].headers, n)
                /\ conn[c].calls[1].headers[n] = conn[c].req.headers[n]

HopByHopHeaders ==
    {"connection", "keep-alive", "transfer-encoding", "upgrade", "te", "trailers",
     "proxy-authenticate", "proxy-authorization"}

\* C19: a relayed response has none of the hop-by-hop headers Connection,
\* Keep-Alive, Transfer-Encoding, Upgrade, TE, Trailers, Proxy-Authenticate,
\* Proxy-Authorization.
C19_NoHopByHopRelayed ==
    \A c \in Conns :
        (Answered(c) /\ CallSucceeded(c)) =>
            DOMAIN conn[c].res.headers \cap HopByHopHeaders = {}

\* C20: when the upstream call succeeded, the response to the caller has the
\* status code, the status text and the body of the upstream's response to
\* the forwarded request.
C20_RelayedVerbatim ==
    \A c \in Conns :
        (Answered(c) /\ CallSucceeded(c)) =>
            /\ conn[c].res.status = upstream[c][1].status
            /\ conn[c].res.statusMessage = upstream[c][1].statusText
            /\ conn[c].res.bytes = upstream[c][1].body

\* the upstream's answer to the forwarded request was a redirect
Redirected(c) ==
    /\ upstream[c] # <<>>
    /\ upstream[c][1].status \in RedirectStatuses
    /\ Has(upstream[c][1].headers, "location")

\* C21: when the upstream answers the forwarded request with a redirect, the
\* request is answered with that 3xx response, and the upstream has received
\* exactly one request for it.
C21_RedirectNotFollowed ==
    \A c \in Conns :
        (Active(c) /\ Redirected(c)) =>
            /\ Answered(c)
            /\ conn[c].res.status = upstream[c][1].status
            /\ Len(conn[c].calls) = 1

\* neither the "path" parameter nor what follows "/proxy" in the path gives
\* a non-empty target path
NoTargetPath(req) ==
    LET q == QueryPath(req.url)
    IN  /\ ~MiddlewareFails(req)
        /\ Route(req) = "proxy"
        /\ \/ q.t = "undefined"
           \/ q.t = "string" /\ q.v = <<>>
           \/ q.t = "array" /\ \A i \in 1..Len(q.v) : q.v[i] = <<>>
        /\ Slice(Pathname(req.url), Len(proxyPrefix)) = <<>>

\* C22: a request to the proxy route that gives no non-empty target path is
\* answered 400 with the CORS headers, and no request is sent to the
\* upstream for it.
C22_MissingPathRejected ==
    \A c \in Conns :
        (Active(c) /\ NoTargetPath(conn[c].req)) =>
            /\ Answered(c)
            /\ conn[c].res.status = 400
            /\ CorsHeaderNames \subseteq DOMAIN conn[c].res.headers
            /\ conn[c].calls = <<>>

\* C24: the path of every request sent to the upstream begins with
\* /StudentPortalAPI.
C24_UpstreamPathInPrefix ==
    \A c \in Conns : \A i \in 1..Len(conn[c].calls) :
        StartsWith(conn[c].calls[i].path, ApiPrefix)

(***************************************************************************)
(* The server with two requests in flight: each connection's handler runs  *)
(* to its await of fetch, and the upstream's answers arrive in any order.  *)
(***************************************************************************)
ConcurrentRequests ==
    { Request("GET", <<"/", "health">>, NoHeaders, <<>>),
      Request("GET", <<"/">>, NoHeaders, <<>>),
      Request("GET", <<"/", "nope">>, NoHeaders, <<>>),
      Request("OPTIONS", proxyPrefix \o ApiPath,
              SetHeader(NoHeaders, "origin", FirstAllowed), <<>>),
      Request("GET", proxyPrefix, NoHeaders, <<>>),
      Request("GET", <<"/", "proxy", "?", "path", "=", "x", "&", "path", "=", "x">>,
              NoHeaders, <<>>),
      Request("GET", proxyPrefix \o ApiPath,
              SetHeader(NoHeaders, "origin", FirstAllowed), <<>>),
      Request("POST", <<"/", "proxy", "/", "x">>,
              SetHeader(SetHeader(NoHeaders, "origin", OtherAllowed),
                        "content-type", <<"application/octet-stream">>),
              <<65>>) }

ConcurrentResponses ==
    { UpstreamAnswer(200, "OK",
                     SetHeader(NoHeaders, "content-type", <<"application/json">>),
                     <<65>>),
      UpstreamAnswer(404, "Not Found", NoHeaders, <<>>) }

NextConcurrent ==
    \E c \in Conns :
        \/ \E req \in ConcurrentRequests : Receive(c, req)
        \/ \E status \in RedirectStatuses, location \in Locations :
              UpstreamRedirect(c, status, location)
        \/ \E up \in ConcurrentResponses : UpstreamRespond(c, up)
        \/ UpstreamFail(c)
        \/ Finish(c)

SpecConcurrent == Init /\ [][NextConcurrent]_vars

\* the request passes path resolution and target validation
Forwardable(c) ==
    /\ Resolved(c)
    /\ isValidJiitUrl(JIIT_API_BASE \o TargetPathOf(c))

\* C13: with requests in flight on both connections, an answered request
\* that passed path resolution and target validation has caused exactly one
\* request to the upstream, and when that request was answered the status
\* and body the caller gets are those of its answer; every other answered
\* request has caused none.
C13_OneCallOwnAnswer ==
    \A c \in Conns :
        Answered(c) =>
            IF Forwardable(c)
            THEN /\ Len(conn[c].calls) = 1
                 /\ Len(upstream[c]) = 1
                 /\ CallSucceeded(c) =>
                       /\ conn[c].res.status = upstream[c][1].status
                       /\ conn[c].res.bytes = upstream[c][1].body
            ELSE conn[c].calls = <<>> /\ upstream[c] = <<>>

\* the health check of the platform: GET /health, which has no body
IsHealthCheck(req) ==
    req.method = "GET" /\ req.url = <<"/", "health">> /\ req.body = <<>>

AnswerAfterCall(c) ==
    IF CallFailed(c)
    THEN CorsAnswer(502, HeaderOf(conn[c].req.headers, "origin"), "Proxy error")
    ELSE RelayResponse(HeaderOf(conn[c].req.headers, "origin"), LastAnswer(c))

Settle(c) ==
    \/ \E up \in ConcurrentResponses : UpstreamRespond(c, up)
    \/ UpstreamFail(c)

\* one request for each way through the proxy handler: no target path, an
\* exception inside the try block, and a forwarded request; and a health
\* check
LiveRequests ==
    { Request("GET", <<"/", "health">>, NoHeaders, <<>>),
      Request("GET", proxyPrefix, NoHeaders, <<>>),
      Request("GET", <<"/", "proxy", "?", "path", "=", "x", "&", "path", "=", "x">>,
              NoHeaders, <<>>),
      Request("POST", proxyPrefix \o ApiPath,
              SetHeader(SetHeader(NoHeaders, "origin", FirstAllowed),
                        "content-type", <<"application/octet-stream">>),
              <<65>>) }

NextLive ==
    \E c \in Conns :
        \/ \E req \in LiveRequests : Receive(c, req)
        \/ \E status \in RedirectStatuses, location \in Locations :
              UpstreamRedirect(c, status, location)
        \/ Settle(c)
        \/ Finish(c)

\* the server with two requests in flight, where every upstream call
\* eventually succeeds or fails
SpecLive == Init /\ [][NextLive]_vars /\ \A c \in Conns : WF_vars(Settle(c))

PathTokens ==
    {"/", "StudentPortalAPI", "x", "..", "=", "?", "&", "+", "%2F", "%", "]"}
\* the tokens that stand for characters with a meaning in a URL
SpecialTokens == {"?", "&", "+", "%2F", "%", "]"}

TargetPaths == {<<"/">> \o s : s \in SeqsUpTo(PathTokens, MaxPathLen)}

Unresolved == [kind |-> "none", path |-> <<>>]

InitPath ==
    /\ conn = [c \in Conns |-> FreeConn]
    /\ upstream = [c \in Conns |-> <<>>]
    /\ log = [c \in Conns |-> <<>>]
    /\ sent = [c \in Conns |-> 0]
    /\ failed = 0
    /\ probe \in {[op |-> "path", P |-> p, viaQuery |-> Unresolved,
                   viaPath |-> Unresolved] : p \in TargetPaths}

ResolveViaQuery ==
    /\ probe.op = "path"
    /\ probe.viaQuery = Unresolved
    /\ probe' = [probe EXCEPT !.viaQuery =
                    ResolveTargetPath(<<"/", "proxy", "?", "path", "=">> \o probe.P)]
    /\ UNCHANGED <<conn, upstream, log, sent, failed>>

ResolveViaPath ==
    /\ probe.op = "path"
    /\ probe.viaPath = Unresolved
    /\ probe' = [probe EXCEPT !.viaPath = ResolveTargetPath(<<"/", "proxy">> \o probe.P)]
    /\ UNCHANGED <<conn, upstream, log, sent, failed>>

NextPath == ResolveViaQuery \/ ResolveViaPath

SpecPath == InitPath /\ [][NextPath]_vars

BothResolved ==
    /\ probe.op = "path"
    /\ probe.viaQuery # Unresolved
    /\ probe.viaPath # Unresolved

Plain(P) == \A i \in 1..Len(P) : P[i] \notin SpecialTokens

\* C6, as claimed: for every target path P beginning with "/", both URL
\* shapes resolve to a target path, the same one, and it is P.
C6_EveryPathAgrees ==
    BothResolved =>
        /\ probe.viaQuery = [kind |-> "ok", path |-> probe.P]
        /\ probe.viaPath = [kind |-> "ok", path |-> probe.P]

\* C6, amended: for every target path P beginning with "/" that holds none
\* of the characters ? & + % ], both URL shapes resolve to a target path, the
\* same one, and it is P.
C6_PlainPathAgrees ==
    (BothResolved /\ Plain(probe.P)) =>
        /\ probe.viaQuery = [kind |-> "ok", path |-> probe.P]
        /\ probe.viaPath = [kind |-> "ok", path |-> probe.P]

\* /StudentPortalAPI/x has been resolved in both shapes
C6_Witness ==
    /\ BothResolved
    /\ probe.P = ApiPath
    /\ probe.viaPath.path = ApiPath

(***************************************************************************)
(* The request headers each implementation sends to the upstream: the      *)
(* Express server, the Worker (handleRequest) and the Hono app.            *)
(***************************************************************************)
\* Worker: JIIT_API_BASE, an origin without a path
WorkerApiBase == <<"https://", "webportal.jiit.ac.in", ":6011">>

\* Worker: new Request(targetUrl, {headers: request.headers}), then Origin
\* is set and Host deleted
WorkerProxyHeaders(h) == DeleteHeader(SetHeader(h, "origin", WorkerApiBase), "host")

BACKEND_ORIGIN == <<"https://", "webportal.jiit.ac.in", ":6011">>

STRIP_REQ_HEADERS ==
    {"host", "connection", "keep-alive", "proxy-authenticate", "proxy-authorization",
     "te", "trailers", "transfer-encoding", "upgrade", "cf-connecting-ip", "cf-ray",
     "cf-visitor", "cf-worker", "cf-ipcountry", "x-real-ip", "x-forwarded-for",
     "x-forwarded-host", "x-forwarded-proto", "origin", "referer", "cookie",
     "sec-fetch-site", "sec-fetch-mode", "sec-fetch-dest"}

\* Hono: the inbound headers without STRIP_REQ_HEADERS, then the spoofed ones
HonoOutHeaders(h) ==
    LET kept == [n \in DOMAIN h \ STRIP_REQ_HEADERS |-> h[n]]
        spoofed == [n \in {"origin", "referer", "cookie", "sec-fetch-site",
                           "sec-fetch-mode", "sec-fetch-dest"} |->
                      CASE n = "origin" -> BACKEND_ORIGIN
                        [] n = "referer" -> BACKEND_ORIGIN \o <<"/", "studentportal", "/">>
                        [] n = "cookie" -> <<"has_js=1">>
                        [] n = "sec-fetch-site" -> <<"same-origin">>
                        [] n = "sec-fetch-mode" -> <<"cors">>
                        [] OTHER -> <<"empty">>]
    IN  SetAll(kept, spoofed)

\* Express: the headers of the request fetch sends for a proxied request
ExpressOutHeaders(h) ==
    ProxyHandler(Request("GET", proxyPrefix \o ApiPath, h, <<>>)).calls[1].headers

\* the headers a caller may send: any of the browser's, and Host
CallerHeaders == SetHeader(BrowserHeaders, "host", <<"proxy.example">>)
CallerHeaderSets == {[n \in N |-> CallerHeaders[n]] : N \in SUBSET DOMAIN CallerHeaders}

InitHeaders ==
    /\ conn = [c \in Conns |-> FreeConn]
    /\ upstream = [c \in Conns |-> <<>>]
    /\ log = [c \in Conns |-> <<>>]
    /\ sent = [c \in Conns |-> 0]
    /\ failed = 0
    /\ probe \in {[op |-> "headers", impl |-> i, in |-> h, sent |-> FALSE,
                   out |-> NoHeaders] :
                    i \in {"express", "worker", "hono"}, h \in CallerHeaderSets}

Forward(impl, out) ==
    /\ probe.op = "headers"
    /\ probe.impl = impl
    /\ ~probe.sent
    /\ probe' = [probe EXCEPT !.sent = TRUE, !.out = out]
    /\ UNCHANGED <<conn, upstream, log, sent, failed>>

ExpressForward == Forward("express", ExpressOutHeaders(probe.in))
WorkerForward == Forward("worker", WorkerProxyHeaders(probe.in))
HonoForward == Forward("hono", HonoOutHeaders(probe.in))

NextHeaders == ExpressForward \/ WorkerForward \/ HonoForward

SpecHeaders == InitHeaders /\ [][NextHeaders]_vars

CrossOriginHeaders ==
    {"origin", "referer", "cookie", "sec-fetch-site", "sec-fetch-mode", "sec-fetch-dest"}

\* C9: in each of the three implementations, the value the caller sent for
\* Origin, Referer, Cookie, Sec-Fetch-Site, Sec-Fetch-Mode or Sec-Fetch-Dest
\* is not the value of that header in the request sent to the upstream.
C9_CallerHeadersNotForwarded ==
    (probe.op = "headers" /\ probe.sent) =>
        \A n \in CrossOriginHeaders :
            Has(probe.in, n) => ~(Has(probe.out, n) /\ probe.out[n] = probe.in[n])

(***************************************************************************)
(* The response headers of the Hono app: the upstream's headers without    *)
(* STRIP_RES_HEADERS, then withCors.                                       *)
(***************************************************************************)
HonoAllowedOrigins ==
    {<<"https://yashmalik.tech">>, <<"https://codeblech.github.io">>,
     <<"http://localhost:5173">>, <<"http://localhost:4173">>,
     <<"http://127.0.0.1:5173">>, <<"http://127.0.0.1:4173">>,
     <<"https://jportal.tashif.codes">>}

STRIP_RES_HEADERS ==
    {"connection", "keep-alive", "proxy-authenticate", "proxy-authorization", "te",
     "trailers", "transfer-encoding", "upgrade"}

\* the headers withCors sets for an admitted origin
HonoCorsHeaders(requestOrigin) ==
    [n \in {"access-control-allow-origin", "vary", "access-control-allow-methods",
            "access-control-allow-headers", "access-control-expose-headers"} |->
        CASE n = "access-control-allow-origin" -> requestOrigin.v
          [] n = "vary" -> <<"Origin">>
          [] n = "access-control-allow-methods" -> <<"GET,POST,PUT,DELETE,OPTIONS">>
          [] n = "access-control-allow-headers" ->
                <<"Content-Type, Authorization, LocalName">>
          [] OTHER -> <<"*">>]

withCors(headers, requestOrigin) ==
    IF Falsy(requestOrigin) \/ requestOrigin.v \notin HonoAllowedOrigins
    THEN headers
    ELSE SetAll(headers, HonoCorsHeaders(requestOrigin))

\* resHeaders of the relayed response
HonoResHeaders(upHeaders, requestOrigin) ==
    withCors([n \in DOMAIN upHeaders \ STRIP_RES_HEADERS |-> upHeaders[n]],
             requestOrigin)

\* the headers an upstream response may have
UpstreamHeaders ==
    [n \in {"access-control-allow-origin", "access-control-allow-credentials",
            "access-control-max-age", "connection", "content-type"} |->
        CASE n = "access-control-allow-origin" -> <<"*">>
          [] n = "access-control-allow-credentials" -> <<"true">>
          [] n = "access-control-max-age" -> <<"600">>
          [] n = "connection" -> <<"keep-alive">>
          [] OTHER -> <<"application/json">>]
UpstreamHeaderSets ==
    {[n \in N |-> UpstreamHeaders[n]] : N \in SUBSET DOMAIN UpstreamHeaders}

\* the Origin header of the caller: not sent, or one of the four origins
CallerOrigins ==
    {Undefined} \cup
    {Str(o) : o \in {FirstAllowed, OtherAllowed, PrefixOrigin, ForeignOrigin}}

InitHono ==
    /\ conn = [c \in Conns |-> FreeConn]
    /\ upstream = [c \in Conns |-> <<>>]
    /\ log = [c \in Conns |-> <<>>]
    /\ sent = [c \in Conns |-> 0]
    /\ failed = 0
    /\ probe \in {[op |-> "hono", origin |-> o, up |-> h, relayed |-> FALSE,
                   out |-> NoHeaders] :
                    o \in CallerOrigins, h \in UpstreamHeaderSets}

HonoRelay ==
    /\ probe.op = "hono"
    /\ ~probe.relayed
    /\ probe' = [probe EXCEPT !.relayed = TRUE,
                              !.out = HonoResHeaders(probe.up, probe.origin)]
    /\ UNCHANGED <<conn, upstream, log, sent, failed>>

NextHono == HonoRelay

SpecHono == InitHono /\ [][NextHono]_vars

\* C18: every Access-Control-* header of a response the Hono app relays is
\* one withCors set for the caller's origin, with the value withCors gave it.
C18_UpstreamCorsNotRelayed ==
    (probe.op = "hono" /\ probe.relayed) =>
        LET set == withCors(NoHeaders, probe.origin)
        IN  \A n \in DOMAIN probe.out :
                IsAccessControl(n) =>
                    /\ Has(set, n)
                    /\ probe.out[n] = set[n]

(***************************************************************************)
(* The origin gate for every allowlist string: ALLOWED_ORIGINS is set to a *)
(* string of origins and commas, and isOriginAllowed is asked about an     *)
(* origin.                                                                 *)
(***************************************************************************)
ListTokens == {"https://yashmalik.tech", "https://codeblech.github.io", ","}
AllowlistStrings == SeqsUpTo(ListTokens, MaxListLen)

InitAllowlist ==
    /\ conn = [c \in Conns |-> FreeConn]
    /\ upstream = [c \in Conns |-> <<>>]
    /\ log = [c \in Conns |-> <<>>]
    /\ sent = [c \in Conns |-> 0]
    /\ failed = 0
    /\ probe \in {[op |-> "allow", env |-> e, origin |-> o, asked |-> FALSE,
                   admitted |-> FALSE] :
                    e \in AllowlistStrings, o \in CallerOrigins}

AskOrigin ==
    /\ probe.op = "allow"
    /\ ~probe.asked
    /\ probe' = [probe EXCEPT !.asked = TRUE,
                              !.admitted = OriginAllowedIn(AllowedOriginsOf(probe.env),
                                                           probe.origin)]
    /\ UNCHANGED <<conn, upstream, log, sent, failed>>

NextAllowlist == AskOrigin

SpecAllowlist == InitAllowlist /\ [][NextAllowlist]_vars

\* C25: for every allowlist string, an origin that isOriginAllowed admits is
\* equal to one of the non-empty origins of the list.
C25_AdmitsListedOnly ==
    (probe.op = "allow" /\ probe.asked /\ probe.admitted) =>
        LET listed == AllowedOriginsOf(probe.env)
        IN  /\ probe.origin.t = "string"
            /\ \E i \in 1..Len(listed) :
                  listed[i] # <<>> /\ listed[i] = probe.origin.v

====
